---- MODULE Spec2Model ----
(***************************************************************************)
(* Model of the week planner of matplan: the MealPlanner component         *)
(* (recipe picker, plan mutators, export and mark-cooked adapters) and the *)
(* part of the App shell that hands it the plan list.                      *)
(*                                                                         *)
(* Optional values (number | null, string | null) are sequences of length  *)
(* at most one: Null is <<>>, Some(x) is <<x>>.  Strings the code inspects *)
(* character by character (week identifiers, free text) are sequences of   *)
(* one-character strings.  Calendar dates are <<year, month, day>>.        *)
(***************************************************************************)
EXTENDS Integers, Sequences, FiniteSets, TLC

VARIABLES recipes, plans, selectedWeek, activeDayIndices, out, nOps, probe,
          remote, inflight, console

vars == <<recipes, plans, selectedWeek, activeDayIndices, out, nOps, probe,
          remote, inflight, console>>

\* the tables of the remote store, the calls to it that have not returned
\* yet, and the lines written with console.error, each with the number of
\* the write it belongs to
syncVars == <<remote, inflight, console>>

----------------------------------------------------------------------------
(* Bounds of the model *)

\* number of handler invocations explored in one behaviour
MaxOps == 4
\* the day buttons (toggle, pick, free text, randomize) pressed are 0..MaxDay
MaxDay == 1

----------------------------------------------------------------------------
(* Generic helpers *)

Null == <<>>
Some(x) == <<x>>

Max(a, b) == IF a >= b THEN a ELSE b
Min(a, b) == IF a <= b THEN a ELSE b

SeqToSet(s) == { s[i] : i \in 1..Len(s) }

\* Array.prototype.includes
Includes(s, x) == \E i \in 1..Len(s) : s[i] = x

\* [...new Set(s)]: first occurrences, in order
RECURSIVE Dedupe(_)
Dedupe(s) ==
  IF s = <<>> THEN <<>>
  ELSE LET front == Dedupe(SubSeq(s, 1, Len(s) - 1))
           last == s[Len(s)]
       IN IF Includes(front, last) THEN front ELSE Append(front, last)

\* stable insertion of x into a list sorted ascending by numbers
RECURSIVE InsertNum(_, _)
InsertNum(s, x) ==
  IF s = <<>> THEN <<x>>
  ELSE IF x < s[1] THEN <<x>> \o s
  ELSE <<s[1]>> \o InsertNum(Tail(s), x)

\* Array.prototype.sort((a, b) => a - b)
RECURSIVE SortNums(_)
SortNums(s) ==
  IF s = <<>> THEN <<>>
  ELSE InsertNum(SortNums(SubSeq(s, 1, Len(s) - 1)), s[Len(s)])

----------------------------------------------------------------------------
(* Dates: Date.UTC, getUTCDay, setUTCDate and toISOString on whole days *)

\* days from 1970-01-01 to the proleptic Gregorian date y-m-d
DaysFromCivil(y, m, d) ==
  LET yy  == IF m <= 2 THEN y - 1 ELSE y
      era == yy \div 400
      yoe == yy - era * 400
      mp  == IF m > 2 THEN m - 3 ELSE m + 9
      doy == (153 * mp + 2) \div 5 + d - 1
      doe == yoe * 365 + yoe \div 4 - yoe \div 100 + doy
  IN era * 146097 + doe - 719468

\* toISOString().slice(0, 10) of a day number, as <<year, month, day>>
CivilFromDays(n) ==
  LET z   == n + 719468
      era == z \div 146097
      doe == z - era * 146097
      yoe == (doe - doe \div 1460 + doe \div 36524 - doe \div 146096) \div 365
      doy == doe - (365 * yoe + yoe \div 4 - yoe \div 100)
      mp  == (5 * doy + 2) \div 153
      d   == doy - (153 * mp + 2) \div 5 + 1
      m   == IF mp < 10 THEN mp + 3 ELSE mp - 9
      y   == yoe + era * 400
  IN <<IF m <= 2 THEN y + 1 ELSE y, m, d>>

\* Date.prototype.getUTCDay: 0 = Sunday .. 6 = Saturday
GetUTCDay(n) == (n + 4) % 7

\* a > b on "YYYY-MM-DD" strings (four-digit years): lexicographic order
DateGreater(a, b) ==
  \/ a[1] > b[1]
  \/ a[1] = b[1] /\ a[2] > b[2]
  \/ a[1] = b[1] /\ a[2] = b[2] /\ a[3] > b[3]

\* the day Date.now() and new Date() fall on
Today == DaysFromCivil(2026, 1, 7)

----------------------------------------------------------------------------
(* Week identifiers *)

Digits == {"0", "1", "2", "3", "4", "5", "6", "7", "8", "9"}

DigitValue(c) ==
  CASE c = "0" -> 0 [] c = "1" -> 1 [] c = "2" -> 2 [] c = "3" -> 3
    [] c = "4" -> 4 [] c = "5" -> 5 [] c = "6" -> 6 [] c = "7" -> 7
    [] c = "8" -> 8 [] c = "9" -> 9

\* /^(\d{4})-W(\d{2})$/
WeekMatch(w) ==
  /\ Len(w) = 8
  /\ \A i \in {1, 2, 3, 4, 7, 8} : w[i] \in Digits
  /\ w[5] = "-"
  /\ w[6] = "W"

\* Date.UTC(year, m - 1, d) / 86400000: years 0..99 stand for 1900..1999
DateUTC(year, m, d) ==
  DaysFromCivil(IF year >= 0 /\ year <= 99 THEN 1900 + year ELSE year, m, d)

\* the year and the week number captured by the pattern
MatchYear(w) ==
  1000 * DigitValue(w[1]) + 100 * DigitValue(w[2])
    + 10 * DigitValue(w[3]) + DigitValue(w[4])
MatchWeek(w) == 10 * DigitValue(w[7]) + DigitValue(w[8])

\* variant: week 1 is counted from the Monday on or before 1 January
isoWeekDayToISODateFromJan1(weekIdentifier, dayId) ==
  IF ~WeekMatch(weekIdentifier) THEN CivilFromDays(Today)
  ELSE
    LET jan1 == DateUTC(MatchYear(weekIdentifier), 1, 1)
        jan1IsoDow == IF GetUTCDay(jan1) = 0 THEN 7 ELSE GetUTCDay(jan1)
    IN CivilFromDays(jan1 - (jan1IsoDow - 1)
                     + (MatchWeek(weekIdentifier) - 1) * 7 + dayId)

isoWeekDayToISODate(weekIdentifier, dayId) ==
  IF ~WeekMatch(weekIdentifier) THEN CivilFromDays(Today)
  ELSE
    LET year == MatchYear(weekIdentifier)
        week == MatchWeek(weekIdentifier)
        jan4 == DateUTC(year, 1, 4)
        jan4IsoDow == IF GetUTCDay(jan4) = 0 THEN 7 ELSE GetUTCDay(jan4)
        week1Monday == jan4 - (jan4IsoDow - 1)
        target == week1Monday + (week - 1) * 7 + dayId
    IN CivilFromDays(target)

----------------------------------------------------------------------------
(* Free text *)

IsSpace(c) == c = " "

\* String.prototype.trim
RECURSIVE TrimStart(_)
TrimStart(t) == IF t # <<>> /\ IsSpace(t[1]) THEN TrimStart(Tail(t)) ELSE t

RECURSIVE TrimEnd(_)
TrimEnd(t) ==
  IF t # <<>> /\ IsSpace(t[Len(t)]) THEN TrimEnd(SubSeq(t, 1, Len(t) - 1)) ELSE t

Trim(t) == TrimEnd(TrimStart(t))

\* the drafts typed into the free-text box
TextInputs == { <<>>, <<" ">>, <<"a">>, <<" ", "a", " ">> }

----------------------------------------------------------------------------
(* The week dates of the calendar export *)

\* String.prototype.split("-W"): the pieces between the separators, cur
\* being the piece read so far
RECURSIVE SplitFrom(_, _)
SplitFrom(s, cur) ==
  IF s = <<>> THEN <<cur>>
  ELSE IF Len(s) >= 2 /\ s[1] = "-" /\ s[2] = "W"
       THEN <<cur>> \o SplitFrom(SubSeq(s, 3, Len(s)), <<>>)
       ELSE SplitFrom(Tail(s), Append(cur, s[1]))

Split(s) == SplitFrom(s, <<>>)

IsDigits(t) == Len(t) > 0 /\ \A i \in 1..Len(t) : t[i] \in Digits

RECURSIVE DecimalValue(_)
DecimalValue(t) ==
  IF t = <<>> THEN 0
  ELSE 10 * DecimalValue(SubSeq(t, 1, Len(t) - 1)) + DigitValue(t[Len(t)])

\* Number(string) on strings of digits, "-", "W" and blanks: Null is NaN
Number(t) ==
  LET s == Trim(t)
  IN IF s = <<>> THEN Some(0)
     ELSE IF IsDigits(s) THEN Some(DecimalValue(s))
     ELSE IF s[1] = "-" /\ IsDigits(Tail(s)) THEN Some(0 - DecimalValue(Tail(s)))
     ELSE Null

\* the seven Date objects of a week as day numbers: Null is an Invalid Date
getWeekDates(weekString) ==
  LET parts == Split(weekString)
      year == Number(parts[1])
      \* a missing second piece is undefined, and undefined - 1 is NaN
      week == IF Len(parts) >= 2 THEN Number(parts[2]) ELSE Null
  IN IF year = Null \/ week = Null THEN [i \in 1..7 |-> Null]
     ELSE
       LET firstDayOfYear == DateUTC(year[1], 1, 1)
           daysOffset == (week[1] - 1) * 7
           dayOfWeek == GetUTCDay(firstDayOfYear)
           diff == (IF dayOfWeek = 0 THEN 0 - 6 ELSE 1) - dayOfWeek
           firstMonday == firstDayOfYear + diff
           weekStart == firstMonday + daysOffset
       IN [i \in 1..7 |-> Some(weekStart + (i - 1))]

\* toISOString throws a RangeError on an Invalid Date
formatDateForICS(date) ==
  IF date = Null THEN [raised |-> TRUE, value |-> Null]
  ELSE [raised |-> FALSE, value |-> Some(CivilFromDays(date[1]))]

\* generateICS on one event: the day of DTSTART, the time of day left out
EventStart(weekString, dayId) ==
  formatDateForICS(getWeekDates(weekString)[dayId + 1])

----------------------------------------------------------------------------
(* Catalog and plan values *)

ALL_DAYS == <<0, 1, 2, 3, 4, 5, 6>>

Recipe(id, category, lastCooked) ==
  [id |-> id, category |-> category, lastCooked |-> lastCooked]

DayPlan(dayId, recipeId, freeText) ==
  [dayId |-> dayId, recipeId |-> recipeId, freeText |-> freeText]

WeekPlan(weekIdentifier, days, active) ==
  [weekIdentifier |-> weekIdentifier, days |-> days, activeDayIndices |-> active]

\* the catalogs a session runs with
CatalogEmpty == <<>>
CatalogTwo ==
  << Recipe(1, "Kott", Null),
     Recipe(2, "Fisk", Some(<<2026, 1, 2>>)) >>
CatalogThree ==
  << Recipe(1, "Kott", Some(<<2025, 11, 20>>)),
     Recipe(2, "Kott", Null),
     Recipe(3, "Fisk", Some(<<2026, 2, 1>>)) >>

Catalogs == { CatalogEmpty, CatalogTwo, CatalogThree }

\* the weeks the week selector is set to
Week02 == <<"2", "0", "2", "6", "-", "W", "0", "2">>
Week03 == <<"2", "0", "2", "6", "-", "W", "0", "3">>
Weeks == { Week02, Week03 }

DigitChar(n) ==
  CASE n = 0 -> "0" [] n = 1 -> "1" [] n = 2 -> "2" [] n = 3 -> "3"
    [] n = 4 -> "4" [] n = 5 -> "5" [] n = 6 -> "6" [] n = 7 -> "7"
    [] n = 8 -> "8" [] n = 9 -> "9"

\* initial value of selectedWeek: the ISO week of today
InitialWeek ==
  LET dayNum == IF GetUTCDay(Today) = 0 THEN 7 ELSE GetUTCDay(Today)
      d == Today + 4 - dayNum
      y == CivilFromDays(d)[1]
      yearStart == DaysFromCivil(y, 1, 1)
      \* Math.ceil(((d - yearStart) + 1) / 7)
      weekNo == ((d - yearStart) + 1 + 6) \div 7
  IN << DigitChar(y \div 1000), DigitChar((y \div 100) % 10),
        DigitChar((y \div 10) % 10), DigitChar(y % 10), "-", "W",
        DigitChar((weekNo \div 10) % 10), DigitChar(weekNo % 10) >>

----------------------------------------------------------------------------
(* MealPlanner: derived values *)

\* plans.findIndex((p) => p.weekIdentifier === w), 0 when there is none
RECURSIVE FindWeekIdxFrom(_, _, _)
FindWeekIdxFrom(ps, w, i) ==
  IF i > Len(ps) THEN 0
  ELSE IF ps[i].weekIdentifier = w THEN i
  ELSE FindWeekIdxFrom(ps, w, i + 1)

FindWeekIdx(ps, w) == FindWeekIdxFrom(ps, w, 1)

\* days.findIndex((d) => d.dayId === dayId), 0 when there is none
RECURSIVE FindDayIdxFrom(_, _, _)
FindDayIdxFrom(ds, dayId, i) ==
  IF i > Len(ds) THEN 0
  ELSE IF ds[i].dayId = dayId THEN i
  ELSE FindDayIdxFrom(ds, dayId, i + 1)

FindDayIdx(ds, dayId) == FindDayIdxFrom(ds, dayId, 1)

\* plans.filter((p) => p.weekIdentifier !== w)
OtherPlans(ps, w) == SelectSeq(ps, LAMBDA p : p.weekIdentifier # w)

PlanOf(ps, w) ==
  IF FindWeekIdx(ps, w) > 0 THEN ps[FindWeekIdx(ps, w)]
  ELSE WeekPlan(w, <<>>, ALL_DAYS)

currentPlan == PlanOf(plans, selectedWeek)

\* recipes.find((x) => x.id === id), as an optional
RECURSIVE FindRecipeFrom(_, _, _)
FindRecipeFrom(rs, id, i) ==
  IF i > Len(rs) THEN Null
  ELSE IF rs[i].id = id THEN Some(rs[i])
  ELSE FindRecipeFrom(rs, id, i + 1)

FindRecipe(rs, id) == FindRecipeFrom(rs, id, 1)

\* the value the week-change effect gives the local active days
FromPlan(plan) ==
  IF Len(plan.activeDayIndices) > 0 THEN SortNums(plan.activeDayIndices)
  ELSE ALL_DAYS

----------------------------------------------------------------------------
(* Recommendation engine *)

\* Math.floor((Date.now() - new Date(lastCooked).getTime()) / 86400000)
DiffDays(lastCooked) ==
  Today - DaysFromCivil(lastCooked[1], lastCooked[2], lastCooked[3])

\* variant: a never-cooked recipe gets no bonus
FreshnessBonusNoneForNew(r) ==
  IF r.lastCooked = Null THEN 0 ELSE Min(DiffDays(r.lastCooked[1]), 30)

FreshnessBonus(r) ==
  IF r.lastCooked = Null THEN 20 ELSE Min(DiffDays(r.lastCooked[1]), 30)

\* variant: the score is not clamped from below
ScoreUnclamped(r, excludeIds, excludeCategories) ==
  100
    - (IF r.id \in excludeIds THEN 95 ELSE 0)
    - (IF r.category \in excludeCategories THEN 80 ELSE 0)
    + FreshnessBonus(r)

Score(r, excludeIds, excludeCategories) ==
  LET raw == 100
             - (IF r.id \in excludeIds THEN 95 ELSE 0)
             - (IF r.category \in excludeCategories THEN 80 ELSE 0)
             + FreshnessBonus(r)
  IN Max(raw, 1)

\* stable insertion of c into a list sorted by descending score
RECURSIVE InsertByScore(_, _)
InsertByScore(s, c) ==
  IF s = <<>> THEN <<c>>
  ELSE IF c.score > s[1].score THEN <<c>> \o s
  ELSE <<s[1]>> \o InsertByScore(Tail(s), c)

\* candidates.sort((a, b) => b.score - a.score)
RECURSIVE SortByScore(_)
SortByScore(s) ==
  IF s = <<>> THEN <<>>
  ELSE InsertByScore(SortByScore(SubSeq(s, 1, Len(s) - 1)), s[Len(s)])

Candidates(rs, excludeIds, excludeCategories) ==
  [i \in 1..Len(rs) |->
     [recipe |-> rs[i], score |-> Score(rs[i], excludeIds, excludeCategories)]]

\* Math.max(1, Math.floor(n * 0.2))
TopCount(n) == Max(1, n \div 5)

TopCandidates(rs, excludeIds, excludeCategories) ==
  LET sorted == SortByScore(Candidates(rs, excludeIds, excludeCategories))
  IN SubSeq(sorted, 1, Min(Len(sorted), TopCount(Len(sorted))))

\* the recipes pickSmartRecipe can return; the empty set stands for null
pickSmartRecipe(rs, excludeIds, excludeCategories) ==
  IF Len(rs) = 0 THEN {}
  ELSE LET top == TopCandidates(rs, excludeIds, excludeCategories)
       IN { top[i].recipe : i \in 1..Len(top) }

\* excludeDayId is an optional day
buildWeekExcludes(rs, plan, excludeDayId) ==
  LET counted == { i \in 1..Len(plan.days) :
                     /\ ~(excludeDayId # Null /\ plan.days[i].dayId = excludeDayId[1])
                     /\ plan.days[i].recipeId # Null }
      ids == { plan.days[i].recipeId[1] : i \in counted }
  IN [usedIds |-> ids,
      usedCategories |->
        { FindRecipe(rs, id)[1].category : id \in { x \in ids : FindRecipe(rs, x) # Null } }]

----------------------------------------------------------------------------
(* Plan mutators: each returns the list handed to onUpdatePlans *)

\* Array.from(new Set(a)).filter((n) => n >= 0 && n <= 6).sort((a, b) => a - b)
NormalizeActive(newActive) ==
  SortNums(SelectSeq(Dedupe(newActive), LAMBDA n : n >= 0 /\ n <= 6))

\* variant: the days of switched-off days are dropped from the week
persistActiveDaysDropsInactive(ps, week, newActive) ==
  LET existingIdx == FindWeekIdx(ps, week)
      normalized == NormalizeActive(newActive)
      merged == WeekPlan(week,
                         IF existingIdx > 0
                         THEN SelectSeq(ps[existingIdx].days,
                                        LAMBDA d : Includes(normalized, d.dayId))
                         ELSE <<>>,
                         normalized)
  IN Append(OtherPlans(ps, week), merged)

persistActiveDaysForWeek(ps, week, newActive) ==
  LET existingIdx == FindWeekIdx(ps, week)
      merged == WeekPlan(week,
                         IF existingIdx > 0 THEN ps[existingIdx].days ELSE <<>>,
                         NormalizeActive(newActive))
  IN Append(OtherPlans(ps, week), merged)

\* variant: switching a day off also drops the days before it
ToggleNextFilterAbove(prev, idx) ==
  IF Includes(prev, idx) THEN SelectSeq(prev, LAMBDA i : i > idx)
  ELSE SortNums(Append(prev, idx))

\* the next local active days computed by toggleDay
ToggleNext(prev, idx) ==
  IF Includes(prev, idx) THEN SelectSeq(prev, LAMBDA i : i # idx)
  ELSE SortNums(Append(prev, idx))

\* { ...base, ...patch }: patch is a record with some of the DayPlan fields
Spread(base, patch) ==
  [f \in DOMAIN base |-> IF f \in DOMAIN patch THEN patch[f] ELSE base[f]]

\* variant: an existing week keeps only the day that was written
updateDayPlanReplacesDays(ps, week, active, dayId, patch) ==
  LET existingPlanIdx == FindWeekIdx(ps, week)
      written == Spread(DayPlan(dayId, Null, Null), patch)
  IN IF existingPlanIdx > 0
     THEN [ps EXCEPT ![existingPlanIdx] = WeekPlan(week, <<written>>, active)]
     ELSE Append(ps, WeekPlan(week, <<written>>, active))

\* variant: a WeekPlan is always appended, also when the week has one
updateDayPlanAppendsWeek(ps, week, active, dayId, patch) ==
  Append(ps, WeekPlan(week, <<Spread(DayPlan(dayId, Null, Null), patch)>>, active))

\* variant: the written day is always pushed, also when the week has it
updateDayPlanAlwaysPushes(ps, week, active, dayId, patch) ==
  LET existingPlanIdx == FindWeekIdx(ps, week)
      written == Spread(DayPlan(dayId, Null, Null), patch)
  IN IF existingPlanIdx > 0
     THEN [ps EXCEPT ![existingPlanIdx] =
             WeekPlan(week, Append(ps[existingPlanIdx].days, written), active)]
     ELSE Append(ps, WeekPlan(week, <<written>>, active))

updateDayPlan(ps, week, active, dayId, patch) ==
  LET existingPlanIdx == FindWeekIdx(ps, week)
  IN IF existingPlanIdx > 0
     THEN LET wp == ps[existingPlanIdx]
              dayIdx == FindDayIdx(wp.days, dayId)
              newDays ==
                IF dayIdx > 0
                THEN [wp.days EXCEPT
                        ![dayIdx] = [Spread(wp.days[dayIdx], patch) EXCEPT !.dayId = dayId]]
                ELSE Append(wp.days, Spread(DayPlan(dayId, Null, Null), patch))
          IN [ps EXCEPT ![existingPlanIdx] = WeekPlan(wp.weekIdentifier, newDays, active)]
     ELSE Append(ps, WeekPlan(week, <<Spread(DayPlan(dayId, Null, Null), patch)>>, active))

\* the contents of the list updateDayPlan was given (the plans prop), once it
\* has returned: newPlans = [...plans] shares the WeekPlan objects, and the
\* week's days array and activeDayIndices are written through newPlans
updateDayPlanHeld(ps, week, active, dayId, patch) ==
  IF FindWeekIdx(ps, week) > 0
  THEN updateDayPlan(ps, week, active, dayId, patch)
  ELSE ps

\* variant: picking a recipe leaves the free text in place
RecipePatchKeepsText(recipeId) == [recipeId |-> recipeId]

RecipePatch(recipeId) == [recipeId |-> recipeId, freeText |-> Null]

FreeTextPatch(text) ==
  LET cleaned == Trim(text)
  IN [recipeId |-> Null, freeText |-> IF Len(cleaned) > 0 THEN Some(cleaned) ELSE Null]

\* stable insertion of d into a list sorted by ascending dayId
RECURSIVE InsertDay(_, _)
InsertDay(s, d) ==
  IF s = <<>> THEN <<d>>
  ELSE IF d.dayId < s[1].dayId THEN <<d>> \o s
  ELSE <<s[1]>> \o InsertDay(Tail(s), d)

\* days.sort((a, b) => a.dayId - b.dayId)
RECURSIVE SortDays(_)
SortDays(s) ==
  IF s = <<>> THEN <<>>
  ELSE InsertDay(SortDays(SubSeq(s, 1, Len(s) - 1)), s[Len(s)])

\* the lists activeDayIndices.map(...) of randomizeAll can produce, one per
\* run of random choices; the used sets grow with each pick
RECURSIVE NewDayPlans(_, _, _, _)
NewDayPlans(rs, active, usedIds, usedCategories) ==
  IF active = <<>> THEN { <<>> }
  ELSE LET picks == pickSmartRecipe(rs, usedIds, usedCategories)
       IN IF picks = {}
          THEN { <<DayPlan(active[1], Null, Null)>> \o rest :
                   rest \in NewDayPlans(rs, Tail(active), usedIds, usedCategories) }
          ELSE UNION { { <<DayPlan(active[1], Some(r.id), Null)>> \o rest :
                           rest \in NewDayPlans(rs, Tail(active),
                                                usedIds \cup {r.id},
                                                usedCategories \cup {r.category}) }
                       : r \in picks }

\* variant: the days that are not active are not carried over
randomizeAllResultsActiveOnly(rs, ps, week, active) ==
  LET ex == buildWeekExcludes(rs, PlanOf(ps, week), Null)
  IN { Append(OtherPlans(ps, week), WeekPlan(week, SortDays(newDayPlans), active))
       : newDayPlans \in NewDayPlans(rs, active, ex.usedIds, ex.usedCategories) }

\* the plan lists randomizeAll can hand to onUpdatePlans (recipes non-empty)
randomizeAllResults(rs, ps, week, active) ==
  LET plan == PlanOf(ps, week)
      ex == buildWeekExcludes(rs, plan, Null)
      existingOtherDays == SelectSeq(plan.days, LAMBDA d : ~Includes(active, d.dayId))
  IN { Append(OtherPlans(ps, week),
              WeekPlan(week, SortDays(existingOtherDays \o newDayPlans), active))
       : newDayPlans \in NewDayPlans(rs, active, ex.usedIds, ex.usedCategories) }

\* the recipes randomizeDay can write into dayId
randomizeDayPicks(rs, ps, week, dayId) ==
  LET ex == buildWeekExcludes(rs, PlanOf(ps, week), Some(dayId))
  IN pickSmartRecipe(rs, ex.usedIds, ex.usedCategories)

----------------------------------------------------------------------------
(* Export and mark-cooked adapters *)

HasContent(d) ==
  \/ d.recipeId # Null
  \/ d.freeText # Null /\ Len(Trim(d.freeText[1])) > 0

\* variant: switched-off days are exported too
ExportSelectionAllDays(plan, active) == SelectSeq(plan.days, HasContent)

\* the activePlans of handleExportAll
ExportSelection(plan, active) ==
  SelectSeq(plan.days, LAMBDA d : Includes(active, d.dayId) /\ HasContent(d))

\* generateICS: the plans that become events
IcsEvents(dayPlans) == SelectSeq(dayPlans, HasContent)

\* Map.get / Map.set on a list of <<key, value>> pairs in insertion order
MapHas(m, k) == \E i \in 1..Len(m) : m[i][1] = k
MapGet(m, k) == m[CHOOSE i \in 1..Len(m) : m[i][1] = k][2]
MapSet(m, k, v) ==
  IF MapHas(m, k) THEN [i \in 1..Len(m) |-> IF m[i][1] = k THEN <<k, v>> ELSE m[i]]
  ELSE Append(m, <<k, v>>)

\* variant: the earliest day of a repeated recipe wins
RECURSIVE CookedMapEarliest(_, _, _, _)
CookedMapEarliest(days, week, active, n) ==
  IF n = 0 THEN <<>>
  ELSE LET m == CookedMapEarliest(days, week, active, n - 1)
           d == days[n]
       IN IF ~Includes(active, d.dayId) \/ d.recipeId = Null THEN m
          ELSE LET cookDate == isoWeekDayToISODate(week, d.dayId)
                   id == d.recipeId[1]
               IN IF ~MapHas(m, id) \/ DateGreater(MapGet(m, id), cookDate)
                  THEN MapSet(m, id, cookDate)
                  ELSE m

\* the byRecipeId map of handleSaveCookedAll after the first n days
RECURSIVE CookedMap(_, _, _, _)
CookedMap(days, week, active, n) ==
  IF n = 0 THEN <<>>
  ELSE LET m == CookedMap(days, week, active, n - 1)
           d == days[n]
       IN IF ~Includes(active, d.dayId) \/ d.recipeId = Null THEN m
          ELSE LET cookDate == isoWeekDayToISODate(week, d.dayId)
                   id == d.recipeId[1]
               IN IF ~MapHas(m, id) \/ DateGreater(cookDate, MapGet(m, id))
                  THEN MapSet(m, id, cookDate)
                  ELSE m

CookedUpdates(plan, week, active) ==
  LET m == CookedMap(plan.days, week, active, Len(plan.days))
  IN [i \in 1..Len(m) |-> [id |-> m[i][1], lastCooked |-> m[i][2]]]

----------------------------------------------------------------------------
(* App shell: the rows of the week_plans table and their load *)

DbRow(week, days, active) ==
  [week_identifier |-> week, days |-> days, active_day_indices |-> active]

\* normalizeActiveDays of App.tsx; a null column is the empty list
normalizeActiveDays(active) ==
  IF Len(active) = 0 THEN ALL_DAYS
  ELSE SortNums(SelectSeq(Dedupe(active), LAMBDA n : n >= 0 /\ n <= 6))

\* rows.map(...) of fetchWeekPlansFromSupabase; the rows come ordered by
\* week_identifier
fetchWeekPlans(rows) ==
  [i \in 1..Len(rows) |->
     WeekPlan(rows[i].week_identifier, rows[i].days,
              normalizeActiveDays(rows[i].active_day_indices))]

\* contents of the table that a load can find (written by earlier sessions)
StoreTwoDays ==
  << DbRow(Week03, <<DayPlan(0, Some(1), Null), DayPlan(1, Some(2), Null)>>, <<1, 0>>) >>
StoreMixed ==
  << DbRow(Week02,
           <<DayPlan(0, Some(1), Null), DayPlan(1, Null, Some(<<" ">>)),
             DayPlan(3, Null, Some(<<"a">>)), DayPlan(5, Some(1), Null)>>,
           <<0, 1, 3>>),
     DbRow(Week03, <<DayPlan(2, Some(2), Null)>>, <<>>) >>

Stores == { StoreTwoDays, StoreMixed }

\* the store: the rows of week_plans ordered by week_identifier, the rows of
\* recipes in the order a select returns them, and the saves that have
\* reached it so far, as <<table, number of the write>>
Remote(weekPlans, rs) ==
  [week_plans |-> weekPlans, recipes |-> rs, committed |-> {}]

----------------------------------------------------------------------------
(* State machine *)

\* what the last handler did: its name and argument, whether it called
\* onUpdatePlans, what it passed to generateICS and to onMarkCooked, the
\* local active days it started from, the contents of the plan list it was
\* given once it has returned, and the handler that ran before it
OutHeld(op, dayId, called, ics, cooked, before, held) ==
  [op |-> op, dayId |-> dayId, called |-> called, ics |-> ics,
   cooked |-> cooked, before |-> before, held |-> held,
   prev |-> [op |-> out.op, dayId |-> out.dayId, before |-> out.before]]

\* a handler that does not write to the list it was given
Out(op, dayId, called, ics, cooked, before) ==
  OutHeld(op, dayId, called, ics, cooked, before, plans)

NoProbe == [kind |-> "none"]

DayButtons == 0..MaxDay

Init ==
  /\ recipes \in Catalogs
  /\ plans = <<>>
  /\ selectedWeek = InitialWeek
  /\ activeDayIndices = ALL_DAYS
  /\ out = [op |-> "mount", dayId |-> -1, called |-> FALSE, ics |-> Null,
            cooked |-> Null, before |-> <<>>, held |-> <<>>,
            prev |-> [op |-> "none", dayId |-> -1, before |-> <<>>]]
  /\ nOps = 0
  /\ probe = NoProbe
  /\ remote = Remote(<<>>, recipes)
  /\ inflight = {}
  /\ console = {}

\* the week selector changes selectedWeek; the effect re-reads the active days
SelectWeek(w) ==
  /\ nOps < MaxOps
  /\ w # selectedWeek
  /\ selectedWeek' = w
  /\ activeDayIndices' = FromPlan(PlanOf(plans, w))
  /\ out' = Out("selectWeek", -1, FALSE, Null, Null, activeDayIndices)
  /\ nOps' = nOps + 1
  /\ UNCHANGED <<syncVars, probe, recipes, plans>>

toggleDay(idx) ==
  /\ nOps < MaxOps
  /\ activeDayIndices' = ToggleNext(activeDayIndices, idx)
  /\ plans' = persistActiveDaysForWeek(plans, selectedWeek, ToggleNext(activeDayIndices, idx))
  /\ out' = Out("toggleDay", idx, TRUE, Null, Null, activeDayIndices)
  /\ nOps' = nOps + 1
  /\ UNCHANGED <<syncVars, probe, recipes, selectedWeek>>

\* recipeId is an optional id: the "clear" button passes null
updateDayRecipe(dayId, recipeId) ==
  /\ nOps < MaxOps
  /\ Includes(activeDayIndices, dayId)
  /\ plans' = updateDayPlan(plans, selectedWeek, activeDayIndices, dayId, RecipePatch(recipeId))
  /\ out' = OutHeld("updateDayRecipe", dayId, TRUE, Null, Null, activeDayIndices,
                    updateDayPlanHeld(plans, selectedWeek, activeDayIndices, dayId,
                                      RecipePatch(recipeId)))
  /\ nOps' = nOps + 1
  /\ UNCHANGED <<syncVars, probe, recipes, selectedWeek, activeDayIndices>>

updateDayFreeText(dayId, text) ==
  /\ nOps < MaxOps
  /\ Includes(activeDayIndices, dayId)
  /\ plans' = updateDayPlan(plans, selectedWeek, activeDayIndices, dayId, FreeTextPatch(text))
  /\ out' = OutHeld("updateDayFreeText", dayId, TRUE, Null, Null, activeDayIndices,
                    updateDayPlanHeld(plans, selectedWeek, activeDayIndices, dayId,
                                      FreeTextPatch(text)))
  /\ nOps' = nOps + 1
  /\ UNCHANGED <<syncVars, probe, recipes, selectedWeek, activeDayIndices>>

randomizeDay(dayId) ==
  /\ nOps < MaxOps
  /\ Includes(activeDayIndices, dayId)
  /\ LET picks == randomizeDayPicks(recipes, plans, selectedWeek, dayId)
     IN IF picks = {}
        THEN /\ plans' = plans
             /\ out' = Out("randomizeDay", dayId, FALSE, Null, Null, activeDayIndices)
        ELSE \E selected \in picks :
               /\ plans' = updateDayPlan(plans, selectedWeek, activeDayIndices, dayId,
                                         RecipePatch(Some(selected.id)))
               /\ out' = OutHeld("randomizeDay", dayId, TRUE, Null, Null, activeDayIndices,
                                 updateDayPlanHeld(plans, selectedWeek, activeDayIndices,
                                                   dayId, RecipePatch(Some(selected.id))))
  /\ nOps' = nOps + 1
  /\ UNCHANGED <<syncVars, probe, recipes, selectedWeek, activeDayIndices>>

\* variant: no early return on an empty catalog
randomizeAllUnguarded ==
  /\ nOps < MaxOps
  /\ plans' \in randomizeAllResults(recipes, plans, selectedWeek, activeDayIndices)
  /\ out' = Out("randomizeAll", -1, TRUE, Null, Null, activeDayIndices)
  /\ nOps' = nOps + 1
  /\ UNCHANGED <<syncVars, probe, recipes, selectedWeek, activeDayIndices>>

randomizeAll ==
  /\ nOps < MaxOps
  /\ IF Len(recipes) = 0
     THEN /\ plans' = plans
          /\ out' = Out("randomizeAll", -1, FALSE, Null, Null, activeDayIndices)
     ELSE /\ plans' \in randomizeAllResults(recipes, plans, selectedWeek, activeDayIndices)
          /\ out' = Out("randomizeAll", -1, TRUE, Null, Null, activeDayIndices)
  /\ nOps' = nOps + 1
  /\ UNCHANGED <<syncVars, probe, recipes, selectedWeek, activeDayIndices>>

handleExportAll ==
  /\ nOps < MaxOps
  /\ LET activePlans == ExportSelection(currentPlan, activeDayIndices)
     IN out' = Out("handleExportAll", -1, FALSE,
                   IF Len(activePlans) = 0 THEN Null
                   ELSE Some([plans |-> activePlans, events |-> IcsEvents(activePlans)]),
                   Null, activeDayIndices)
  /\ nOps' = nOps + 1
  /\ UNCHANGED <<syncVars, probe, recipes, plans, selectedWeek, activeDayIndices>>

handleSaveCookedAll ==
  /\ nOps < MaxOps
  /\ LET updates == CookedUpdates(currentPlan, selectedWeek, activeDayIndices)
     IN out' = Out("handleSaveCookedAll", -1, FALSE, Null,
                   IF Len(updates) = 0 THEN Null ELSE Some(updates),
                   activeDayIndices)
  /\ nOps' = nOps + 1
  /\ UNCHANGED <<syncVars, probe, recipes, plans, selectedWeek, activeDayIndices>>

\* a load of the week plans (initial load or change notification) completes
Reload(rows) ==
  /\ nOps < MaxOps
  /\ plans' = fetchWeekPlans(rows)
  /\ out' = Out("reload", -1, FALSE, Null, Null, activeDayIndices)
  /\ nOps' = nOps + 1
  /\ UNCHANGED <<syncVars, probe, recipes, selectedWeek, activeDayIndices>>

RecipeIds == { recipes[i].id : i \in 1..Len(recipes) }

PlannerNext ==
  \/ \E w \in Weeks : SelectWeek(w)
  \/ \E idx \in DayButtons : toggleDay(idx)
  \/ \E dayId \in DayButtons : \E id \in RecipeIds : updateDayRecipe(dayId, Some(id))
  \/ \E dayId \in DayButtons : updateDayRecipe(dayId, Null)
  \/ \E dayId \in DayButtons : \E text \in TextInputs : updateDayFreeText(dayId, text)
  \/ \E dayId \in DayButtons : randomizeDay(dayId)
  \/ randomizeAll
  \/ handleExportAll
  \/ handleSaveCookedAll

Next == PlannerNext

Spec == Init /\ [][Next]_vars

NextLoaded == PlannerNext \/ \E rows \in Stores : Reload(rows)

SpecLoaded == Init /\ [][NextLoaded]_vars

----------------------------------------------------------------------------
(* Properties of the planner *)

\* a handler ran in this step (every handler counts itself in nOps)
Stepped == nOps' # nOps

WeekIdsOf(ps) == { ps[i].weekIdentifier : i \in 1..Len(ps) }

\* the days of a list other than those of dayId, in order
DaysExcept(days, dayId) == SelectSeq(days, LAMBDA d : d.dayId # dayId)

\* the weeks other than w with their days, in the order of the plan list
OtherWeekDays(ps, w) ==
  LET others == OtherPlans(ps, w)
  IN [i \in 1..Len(others) |-> <<others[i].weekIdentifier, others[i].days>>]

\* no recipe id sits on two different active days of the plan
NoRecipeOnTwoActiveDays(plan, active) ==
  \A i, j \in 1..Len(plan.days) :
    ( /\ Includes(active, plan.days[i].dayId)
      /\ Includes(active, plan.days[j].dayId)
      /\ plan.days[i].dayId # plan.days[j].dayId
      /\ plan.days[i].recipeId # Null )
    => plan.days[i].recipeId # plan.days[j].recipeId

\* C1: whenever randomizeAll runs with a catalog of at least as many recipes
\* as there are active days, the week it hands to onUpdatePlans has no recipe
\* id on two different active days.
C1_RandomizeAllNoDuplicate ==
  [][ ( /\ Stepped
        /\ out'.op = "randomizeAll"
        /\ Len(recipes) >= Cardinality(SeqToSet(activeDayIndices)) )
      => NoRecipeOnTwoActiveDays(PlanOf(plans', selectedWeek), activeDayIndices) ]_vars

\* C2: in every state reached from the empty plan list by the plan mutators,
\* no DayPlan of any WeekPlan has both a recipeId and a freeText.
C2_MutuallyExclusive ==
  \A w \in 1..Len(plans) : \A i \in 1..Len(plans[w].days) :
    ~(plans[w].days[i].recipeId # Null /\ plans[w].days[i].freeText # Null)

\* a recipe was written over a day while another day of the week holds text
C2_Witness ==
  /\ out.op \in {"updateDayRecipe", "randomizeDay"}
  /\ out.prev.op = "updateDayFreeText"
  /\ out.prev.dayId = out.dayId
  /\ \E i \in 1..Len(currentPlan.days) :
       /\ currentPlan.days[i].dayId = out.dayId
       /\ currentPlan.days[i].recipeId # Null
  /\ \E i \in 1..Len(currentPlan.days) : currentPlan.days[i].freeText # Null

\* C3: randomizeDay, updateDayRecipe and updateDayFreeText on dayId leave the
\* other days of the selected week as they were (same entries, none added,
\* none removed) and leave the days of every other week as they were.
C3_OtherDaysUntouched ==
  [][ ( /\ Stepped
        /\ out'.op \in {"randomizeDay", "updateDayRecipe", "updateDayFreeText"} )
      => /\ DaysExcept(PlanOf(plans', selectedWeek).days, out'.dayId)
            = DaysExcept(PlanOf(plans, selectedWeek).days, out'.dayId)
         /\ OtherWeekDays(plans', selectedWeek) = OtherWeekDays(plans, selectedWeek) ]_vars

\* a day was rewritten in a week that holds other days, next to another week
C3_Witness ==
  /\ out.op \in {"randomizeDay", "updateDayRecipe", "updateDayFreeText"}
  /\ out.called
  /\ Len(DaysExcept(currentPlan.days, out.dayId)) >= 2
  /\ \E i \in 1..Len(currentPlan.days) : currentPlan.days[i].dayId = out.dayId
  /\ \E i \in 1..Len(plans) :
       plans[i].weekIdentifier # selectedWeek /\ Len(plans[i].days) > 0

\* C4: randomizeDay leaves the activeDayIndices stored in the selected
\* week's WeekPlan as they were before the call.
C4_RandomizeDayKeepsStoredActiveDays ==
  [][ ( /\ Stepped
        /\ out'.op = "randomizeDay"
        /\ FindWeekIdx(plans, selectedWeek) > 0 )
      => PlanOf(plans', selectedWeek).activeDayIndices
         = PlanOf(plans, selectedWeek).activeDayIndices ]_vars

C6_ToggleKeepsDays ==
  [][ (Stepped /\ out'.op = "toggleDay")
      => \A w \in WeekIdsOf(plans) \cup WeekIdsOf(plans') \cup {selectedWeek} :
           PlanOf(plans', w).days = PlanOf(plans, w).days ]_vars

\* a day holding a recipe was switched off, and another week holds days
C6_Witness ==
  /\ out.op = "toggleDay"
  /\ ~Includes(activeDayIndices, out.dayId)
  /\ \E i \in 1..Len(currentPlan.days) :
       /\ currentPlan.days[i].dayId = out.dayId
       /\ currentPlan.days[i].recipeId # Null
  /\ \E i \in 1..Len(plans) :
       plans[i].weekIdentifier # selectedWeek /\ Len(plans[i].days) > 0

\* C8: with an empty catalog randomizeAll and randomizeDay leave the plan
\* list as it was and do not call onUpdatePlans.
C8_EmptyCatalogNoOp ==
  [][ ( /\ Stepped
        /\ Len(recipes) = 0
        /\ out'.op \in {"randomizeAll", "randomizeDay"} )
      => plans' = plans /\ ~out'.called ]_vars

\* randomizeAll ran with an empty catalog on a week that holds a day
C8_Witness ==
  /\ Len(recipes) = 0
  /\ out.op = "randomizeAll"
  /\ Len(currentPlan.days) > 0

\* the recipe ids on the active days of the plan
ActiveRecipeIds(plan, active) ==
  { plan.days[i].recipeId[1] :
      i \in { k \in 1..Len(plan.days) :
                Includes(active, plan.days[k].dayId) /\ plan.days[k].recipeId # Null } }

\* the day numbers of the dates of the active days holding recipe id
CookDays(plan, week, active, id) ==
  { LET date == isoWeekDayToISODate(week, plan.days[i].dayId)
    IN DaysFromCivil(date[1], date[2], date[3]) :
      i \in { k \in 1..Len(plan.days) :
                /\ Includes(active, plan.days[k].dayId)
                /\ plan.days[k].recipeId = Some(id) } }

\* C9: the batch handleSaveCookedAll builds has one entry per recipe id on an
\* active day of the selected week, carrying the latest date among those
\* days, and nothing else; when it is empty onMarkCooked is not called.
C9_CookedBatch ==
  out.op = "handleSaveCookedAll" =>
    LET ids == ActiveRecipeIds(currentPlan, activeDayIndices)
        updates == IF out.cooked = Null THEN <<>> ELSE out.cooked[1]
    IN /\ (out.cooked = Null) <=> (ids = {})
       /\ Len(updates) = Cardinality(ids)
       /\ { updates[i].id : i \in 1..Len(updates) } = ids
       /\ \A i \in 1..Len(updates) :
            LET days == CookDays(currentPlan, selectedWeek, activeDayIndices, updates[i].id)
                got == DaysFromCivil(updates[i].lastCooked[1], updates[i].lastCooked[2],
                                     updates[i].lastCooked[3])
            IN got \in days /\ \A n \in days : n <= got

\* a recipe on two active days, an active free-text day and an inactive day
\* holding a recipe were marked
C9_Witness ==
  /\ out.op = "handleSaveCookedAll"
  /\ out.cooked # Null
  /\ \E i, j \in 1..Len(currentPlan.days) :
       /\ currentPlan.days[i].dayId < currentPlan.days[j].dayId
       /\ currentPlan.days[i].recipeId # Null
       /\ currentPlan.days[i].recipeId = currentPlan.days[j].recipeId
       /\ Includes(activeDayIndices, currentPlan.days[i].dayId)
       /\ Includes(activeDayIndices, currentPlan.days[j].dayId)
  /\ \E i \in 1..Len(currentPlan.days) :
       /\ currentPlan.days[i].freeText # Null
       /\ Includes(activeDayIndices, currentPlan.days[i].dayId)
  /\ \E i \in 1..Len(currentPlan.days) :
       /\ currentPlan.days[i].recipeId # Null
       /\ ~Includes(activeDayIndices, currentPlan.days[i].dayId)

\* the day is active and has a recipe or a free text with a non-space character
Exportable(d, active) ==
  /\ d.dayId \in SeqToSet(active)
  /\ \/ d.recipeId # Null
     \/ d.freeText # Null /\ \E k \in 1..Len(d.freeText[1]) : d.freeText[1][k] # " "

\* C10: handleExportAll passes to generateICS exactly the days of the
\* selected week that are active and hold a recipe or a non-blank free text,
\* and does not call it when there is none.
C10_ExportFilter ==
  out.op = "handleExportAll" =>
    LET days == currentPlan.days
        wanted == { i \in 1..Len(days) : Exportable(days[i], activeDayIndices) }
    IN IF wanted = {} THEN out.ics = Null
       ELSE /\ out.ics # Null
            /\ Len(out.ics[1].plans) = Cardinality(wanted)
            /\ SeqToSet(out.ics[1].plans) = { days[i] : i \in wanted }
            /\ out.ics[1].events = out.ics[1].plans

\* an export that left out an inactive day holding a recipe and a blank text
C10_Witness ==
  /\ out.op = "handleExportAll"
  /\ out.ics # Null
  /\ \E i \in 1..Len(currentPlan.days) :
       /\ currentPlan.days[i].recipeId # Null
       /\ ~Includes(activeDayIndices, currentPlan.days[i].dayId)
  /\ \E i \in 1..Len(currentPlan.days) :
       /\ currentPlan.days[i].freeText # Null
       /\ Includes(activeDayIndices, currentPlan.days[i].dayId)
       /\ ~Exportable(currentPlan.days[i], activeDayIndices)

----------------------------------------------------------------------------
(* The scoring of pickSmartRecipe on pairs of recipes *)

\* lastCooked dates lie up to MaxDaysAgo days before or after today
MaxDaysAgo == 32

LastCookedInputs ==
  {Null} \cup { Some(CivilFromDays(Today - k)) : k \in (0 - MaxDaysAgo)..MaxDaysAgo }

ProbeCategories == {"Kott", "Fisk"}

InitScore ==
  /\ recipes = <<>>
  /\ plans = <<>>
  /\ selectedWeek = InitialWeek
  /\ activeDayIndices = ALL_DAYS
  /\ out = [op |-> "mount", dayId |-> -1, called |-> FALSE, ics |-> Null,
            cooked |-> Null, before |-> <<>>, held |-> <<>>,
            prev |-> [op |-> "none", dayId |-> -1, before |-> <<>>]]
  /\ nOps = 0
  /\ probe = NoProbe
  /\ remote = Remote(<<>>, <<>>)
  /\ inflight = {}
  /\ console = {}

\* score two recipes against the same used sets, as one candidates.map does
ScorePair ==
  /\ probe = NoProbe
  /\ \E catA \in ProbeCategories, catB \in ProbeCategories,
        lcA \in LastCookedInputs, lcB \in LastCookedInputs,
        excludeIds \in SUBSET {1, 2}, excludeCategories \in SUBSET ProbeCategories :
       LET a == Recipe(1, catA, lcA)
           b == Recipe(2, catB, lcB)
       IN probe' = [kind |-> "score", a |-> a, b |-> b,
                    excludeIds |-> excludeIds,
                    excludeCategories |-> excludeCategories,
                    scoreA |-> Score(a, excludeIds, excludeCategories),
                    scoreB |-> Score(b, excludeIds, excludeCategories)]
  /\ UNCHANGED <<syncVars, recipes, plans, selectedWeek, activeDayIndices, out, nOps>>

SpecScore == InitScore /\ [][ScorePair]_vars

\* both recipes have the same used-id and the same used-category status
SameStatus ==
  /\ (probe.a.id \in probe.excludeIds) <=> (probe.b.id \in probe.excludeIds)
  /\ (probe.a.category \in probe.excludeCategories)
       <=> (probe.b.category \in probe.excludeCategories)

\* both cooked, and A's capped days since then exceed B's
CookedLongerAgo ==
  /\ probe.a.lastCooked # Null
  /\ probe.b.lastCooked # Null
  /\ Min(DiffDays(probe.a.lastCooked[1]), 30) > Min(DiffDays(probe.b.lastCooked[1]), 30)

\* C7 as claimed: with equal status, A scores at least as much as B when A
\* was cooked longer ago (capped at 30 days) or A was never cooked and B was.
C7_ScoreMonotoneAsClaimed ==
  probe.kind = "score" =>
    ( ( /\ SameStatus
        /\ \/ CookedLongerAgo
           \/ probe.a.lastCooked = Null /\ probe.b.lastCooked # Null )
      => probe.scoreA >= probe.scoreB )

\* C7 amended: with equal status, A scores at least as much as B when A was
\* cooked longer ago (capped at 30 days) or A was never cooked and B was
\* cooked at most 20 days ago.
C7_ScoreMonotone ==
  probe.kind = "score" =>
    ( ( /\ SameStatus
        /\ \/ CookedLongerAgo
           \/ /\ probe.a.lastCooked = Null
              /\ probe.b.lastCooked # Null
              /\ DiffDays(probe.b.lastCooked[1]) <= 20 )
      => probe.scoreA >= probe.scoreB )

\* a never-cooked recipe scored against one cooked 20 days ago, neither used
C7_Witness ==
  /\ probe.kind = "score"
  /\ SameStatus
  /\ probe.a.id \notin probe.excludeIds
  /\ probe.a.category \notin probe.excludeCategories
  /\ probe.a.lastCooked = Null
  /\ probe.b.lastCooked # Null
  /\ DiffDays(probe.b.lastCooked[1]) = 20
  /\ probe.scoreA = probe.scoreB

----------------------------------------------------------------------------
(* Date derivation of mark-cooked and of the calendar export, on one week  *)
(* identifier and one day                                                  *)

\* the probed years lie up to YearSpan years before or after this year
YearSpan == 6

ProbeYears ==
  (CivilFromDays(Today)[1] - YearSpan)..(CivilFromDays(Today)[1] + YearSpan)

\* the value of the week input for a year and a week number
WeekId(year, week) ==
  << DigitChar(year \div 1000), DigitChar((year \div 100) % 10),
     DigitChar((year \div 10) % 10), DigitChar(year % 10), "-", "W",
     DigitChar(week \div 10), DigitChar(week % 10) >>

\* week identifiers that are not of the form YYYY-Www have at most MaxIdLen
\* characters
MaxIdLen == 4

IdAlphabet == {"0", "2", "-", "W"}

MalformedIds ==
  { w \in UNION { [1..n -> IdAlphabet] : n \in 0..MaxIdLen } : ~WeekMatch(w) }

DateProbe ==
  /\ probe = NoProbe
  /\ \E year \in ProbeYears, week \in 1..53, dayId \in 0..6 :
       probe' = [kind |-> "date", year |-> year, week |-> week, dayId |-> dayId,
                 weekIdentifier |-> WeekId(year, week),
                 iso |-> isoWeekDayToISODate(WeekId(year, week), dayId),
                 ics |-> EventStart(WeekId(year, week), dayId)]
  /\ UNCHANGED <<syncVars, recipes, plans, selectedWeek, activeDayIndices, out, nOps>>

MalformedProbe ==
  /\ probe = NoProbe
  /\ \E w \in MalformedIds, dayId \in 0..6 :
       probe' = [kind |-> "malformed", dayId |-> dayId, weekIdentifier |-> w,
                 iso |-> isoWeekDayToISODate(w, dayId),
                 ics |-> EventStart(w, dayId)]
  /\ UNCHANGED <<syncVars, recipes, plans, selectedWeek, activeDayIndices, out, nOps>>

NextDates == DateProbe \/ MalformedProbe

SpecDates == InitScore /\ [][NextDates]_vars

\* ISO 8601 week dates, from 1970-01-01 being a Thursday: the weekday
\* (1 = Monday .. 7 = Sunday), and the week-numbering year and week of a
\* day, which are those of the Thursday of its week
IsoWeekday(n) == ((n + 3) % 7) + 1

IsoWeekOf(n) ==
  LET thursday == n - IsoWeekday(n) + 4
      y == CivilFromDays(thursday)[1]
  IN <<y, (thursday - DaysFromCivil(y, 1, 1)) \div 7 + 1, IsoWeekday(n)>>

\* 28 December always lies in the last ISO week of its year
IsoWeeksInYear(y) == IsoWeekOf(DaysFromCivil(y, 12, 28))[2]

MondayOnOrBefore(n) == CHOOSE m \in (n - 6)..n : IsoWeekday(m) = 1

\* C11: for every probed year, week 01..53 and day 0..6, isoWeekDayToISODate
\* returns (Monday on or before 4 January of the year) + (week - 1) * 7 +
\* dayId; when the year has that week, the result is the day whose ISO week
\* date is (year, week, dayId + 1); 2024-W01 day 0 is 2024-01-01, 2026-W02
\* day 3 is Thursday 2026-01-08 and 2020-W53 day 6 is 2021-01-03.
C11_IsoWeekDate ==
  probe.kind = "date" =>
    /\ probe.iso =
         CivilFromDays(MondayOnOrBefore(DaysFromCivil(probe.year, 1, 4))
                       + (probe.week - 1) * 7 + probe.dayId)
    /\ probe.week <= IsoWeeksInYear(probe.year) =>
         IsoWeekOf(DaysFromCivil(probe.iso[1], probe.iso[2], probe.iso[3]))
           = <<probe.year, probe.week, probe.dayId + 1>>
    /\ (probe.year = 2024 /\ probe.week = 1 /\ probe.dayId = 0)
         => probe.iso = <<2024, 1, 1>>
    /\ (probe.year = 2026 /\ probe.week = 2 /\ probe.dayId = 3)
         => probe.iso = <<2026, 1, 8>>
    /\ (probe.year = 2020 /\ probe.week = 53 /\ probe.dayId = 6)
         => probe.iso = <<2021, 1, 3>>

\* the Sunday of week 53 of 2020, a year whose 1 January is not in week 1 of
\* the next year and whose last week reaches into January 2021
C11_Witness ==
  /\ probe.kind = "date"
  /\ probe.weekIdentifier = <<"2", "0", "2", "0", "-", "W", "5", "3">>
  /\ probe.dayId = 6
  /\ probe.iso = <<2021, 1, 3>>

\* C12: for every probed year, week and day, the day generateICS stamps on
\* the event (getWeekDates(week)[dayId]) is isoWeekDayToISODate(week, dayId).
C12_ExportDateIsMarkCookedDate ==
  probe.kind = "date" =>
    probe.ics = [raised |-> FALSE, value |-> Some(probe.iso)]

\* C13: on a week identifier that is not of the form YYYY-Www neither
\* isoWeekDayToISODate nor the date path of generateICS (getWeekDates, then
\* formatDateForICS) raises: both yield a date.
C13_DateDerivationNeverFails ==
  probe.kind = "malformed" =>
    /\ Len(probe.iso) = 3
    /\ ~probe.ics.raised

----------------------------------------------------------------------------
(* A row of the table whose day holds both a recipe and free text *)

\* written by another client: the table has no constraint on the days column
StoreConflict ==
  << DbRow(Week02, <<DayPlan(0, Some(1), Some(<<"a">>))>>, <<0>>) >>

NextConflict == PlannerNext \/ Reload(StoreConflict)

SpecConflict == Init /\ [][NextConflict]_vars

\* C14: a day that arrives from the table with both recipeId and freeText
\* is held with free text winning: no day of the local plan list has both
\* a recipe id and free text.
C14_FreeTextWinsOnRead ==
  \A i \in 1..Len(plans) : \A j \in 1..Len(plans[i].days) :
    ~(plans[i].days[j].recipeId # Null /\ plans[i].days[j].freeText # Null)

----------------------------------------------------------------------------
(* The list a mutator was given *)

\* C18: after updateDayRecipe, updateDayFreeText or randomizeDay has handed
\* a new list to onUpdatePlans, the list it was given, with every WeekPlan
\* and DayPlan in it, still has the contents it had before the call.
C18_InputListUntouched ==
  [][ ( /\ Stepped
        /\ out'.op \in {"updateDayRecipe", "updateDayFreeText", "randomizeDay"}
        /\ out'.called )
      => out'.held = plans ]_vars

----------------------------------------------------------------------------
(* Mark cooked: the batch of handleSaveCookedAll written to the catalog *)

\* update({ last_cooked: isoDate }).eq("id", recipeId) on the recipes
setLastCooked(rs, recipeId, isoDate) ==
  [i \in 1..Len(rs) |->
     IF rs[i].id = recipeId THEN [rs[i] EXCEPT !.lastCooked = Some(isoDate)]
     ELSE rs[i]]

\* the entries of a batch written one after the other
RECURSIVE ApplyCooked(_, _)
ApplyCooked(rs, updates) ==
  IF updates = <<>> THEN rs
  ELSE ApplyCooked(setLastCooked(rs, updates[1].id, updates[1].lastCooked),
                   Tail(updates))

\* one recipe planned in both weeks, all days active
StoreBothWeeks ==
  << DbRow(Week02, <<DayPlan(2, Some(1), Null)>>, <<>>),
     DbRow(Week03, <<DayPlan(0, Some(1), Null)>>, <<>>) >>

InitCooked ==
  /\ recipes \in {CatalogTwo, CatalogThree}
  /\ plans = fetchWeekPlans(StoreBothWeeks)
  /\ selectedWeek = InitialWeek
  /\ activeDayIndices = ALL_DAYS
  /\ out = [op |-> "mount", dayId |-> -1, called |-> FALSE, ics |-> Null,
            cooked |-> Null, before |-> <<>>, held |-> <<>>,
            prev |-> [op |-> "none", dayId |-> -1, before |-> <<>>]]
  /\ nOps = 0
  /\ probe = NoProbe
  /\ remote = Remote(StoreBothWeeks, recipes)
  /\ inflight = {}
  /\ console = {}

\* the marks written so far, as <<recipe id, date>> pairs
MarksOf(p) == IF p.kind = "cooked" THEN p.marks ELSE {}

\* the batch handleSaveCookedAll passed to onMarkCooked reaches the catalog
onMarkCooked ==
  /\ out.op = "handleSaveCookedAll"
  /\ out.cooked # Null
  /\ probe.kind = "cooked" => probe.applied # nOps
  /\ recipes' = ApplyCooked(recipes, out.cooked[1])
  /\ probe' = [kind |-> "cooked", applied |-> nOps,
               marks |-> MarksOf(probe) \cup
                         { <<out.cooked[1][i].id, out.cooked[1][i].lastCooked>> :
                             i \in 1..Len(out.cooked[1]) }]
  /\ UNCHANGED <<syncVars, plans, selectedWeek, activeDayIndices, out, nOps>>

NextCooked == PlannerNext \/ onMarkCooked

SpecCooked == InitCooked /\ [][NextCooked]_vars

\* C19: after any sequence of mark-cooked operations, over different weeks
\* in any order, the stored lastCooked of every marked recipe is the latest
\* date among all its marks.
C19_LastCookedIsLatestMark ==
  \A m \in MarksOf(probe) : \A i \in 1..Len(recipes) :
    recipes[i].id = m[1] =>
      /\ recipes[i].lastCooked # Null
      /\ <<m[1], recipes[i].lastCooked[1]>> \in MarksOf(probe)
      /\ ~DateGreater(m[2], recipes[i].lastCooked[1])

----------------------------------------------------------------------------
(* The score as a closed formula *)

\* whole days from the lastCooked date of a recipe to today, negative when
\* the date lies in the future
WholeDaysSince(r) ==
  Today - DaysFromCivil(r.lastCooked[1][1], r.lastCooked[1][2], r.lastCooked[1][3])

ScoreAsSpecified(r, usedIds, usedCategories) ==
  LET bonus == IF r.lastCooked = Null THEN 20
               ELSE IF WholeDaysSince(r) > 30 THEN 30 ELSE WholeDaysSince(r)
      sum == 100 - 95 * (IF r.id \in usedIds THEN 1 ELSE 0)
                 - 80 * (IF r.category \in usedCategories THEN 1 ELSE 0)
                 + bonus
  IN IF sum < 1 THEN 1 ELSE sum

\* C20: the score of a recipe is max(1, 100 - 95 * [id used]
\* - 80 * [category used] + bonus), where bonus is 20 when lastCooked is
\* null and min(whole days between now and lastCooked, 30) otherwise; every
\* score is at least 1, also when lastCooked lies in the future.
C20_ScoreFormula ==
  probe.kind = "score" =>
    /\ probe.scoreA = ScoreAsSpecified(probe.a, probe.excludeIds, probe.excludeCategories)
    /\ probe.scoreB = ScoreAsSpecified(probe.b, probe.excludeIds, probe.excludeCategories)
    /\ probe.scoreA >= 1
    /\ probe.scoreB >= 1

\* a recipe whose id and category are used and whose lastCooked lies in the
\* future: the sum is below 1 and the score is 1
C20_Witness ==
  /\ probe.kind = "score"
  /\ probe.a.id \in probe.excludeIds
  /\ probe.a.category \in probe.excludeCategories
  /\ probe.a.lastCooked # Null
  /\ WholeDaysSince(probe.a) < 0
  /\ probe.scoreA = 1

----------------------------------------------------------------------------
(* Sync shell: optimistic updates, saves, reloads and change notifications *)

\* writes made in one behaviour of the sync shell
MaxWrites == 2
\* calls and notifications under way at the same time
MaxInflight == 2

\* the day whose buttons are pressed while calls are under way
SyncDays == {0}

\* order of week_identifier values of the form YYYY-Www
WeekBefore(a, b) ==
  \/ MatchYear(a) < MatchYear(b)
  \/ MatchYear(a) = MatchYear(b) /\ MatchWeek(a) < MatchWeek(b)

\* the payload of saveWeekPlansToSupabase
PlanPayload(nextPlans) ==
  [i \in 1..Len(nextPlans) |->
     DbRow(nextPlans[i].weekIdentifier, nextPlans[i].days,
           normalizeActiveDays(nextPlans[i].activeDayIndices))]

\* one row inserted, or written over the row of the same week
RECURSIVE UpsertWeekRow(_, _)
UpsertWeekRow(rows, row) ==
  IF rows = <<>> THEN <<row>>
  ELSE IF rows[1].week_identifier = row.week_identifier THEN <<row>> \o Tail(rows)
  ELSE IF WeekBefore(row.week_identifier, rows[1].week_identifier) THEN <<row>> \o rows
  ELSE <<rows[1]>> \o UpsertWeekRow(Tail(rows), row)

\* one recipe inserted, or written over the row of the same id; the model
\* lists recipes by id where the table is read ordered by name
RECURSIVE UpsertRecipeRow(_, _)
UpsertRecipeRow(rows, row) ==
  IF rows = <<>> THEN <<row>>
  ELSE IF rows[1].id = row.id THEN <<row>> \o Tail(rows)
  ELSE IF row.id < rows[1].id THEN <<row>> \o rows
  ELSE <<rows[1]>> \o UpsertRecipeRow(Tail(rows), row)

\* upsert(payload, { onConflict }) on a table
RECURSIVE Upsert(_, _, _)
Upsert(table, rows, payload) ==
  IF payload = <<>> THEN rows
  ELSE Upsert(table,
              IF table = "week_plans" THEN UpsertWeekRow(rows, payload[1])
              ELSE UpsertRecipeRow(rows, payload[1]),
              Tail(payload))

\* an upsert whose payload names one row twice is refused by the store
DistinctKeys(table, payload) ==
  \A i \in 1..Len(payload) : \A j \in 1..Len(payload) :
    i # j =>
      IF table = "week_plans"
      THEN payload[i].week_identifier # payload[j].week_identifier
      ELSE payload[i].id # payload[j].id

\* what fetchWeekPlansFromSupabase and fetchRecipesFromSupabase return
FetchResult(table) ==
  IF table = "week_plans" THEN fetchWeekPlans(remote.week_plans)
  ELSE remote.recipes

\* a call under way: the number of the write it belongs to, its table,
\* "save", "notify" (a change notification not yet delivered) or "fetch",
\* whether the fetch is the reload after a failed save, the payload of a
\* save or the rows a fetch has read (Null before the select has run), the
\* number of writes made when the notification was delivered, and the saves
\* that had reached the store when the select ran
Task(seq, table, call, rollback, data, after, saw) ==
  [seq |-> seq, table |-> table, call |-> call, rollback |-> rollback,
   data |-> data, after |-> after, saw |-> saw]

\* setPlans / setRecipes
SetLocal(table, value) ==
  IF table = "week_plans" THEN plans' = value /\ UNCHANGED recipes
  ELSE recipes' = value /\ UNCHANGED plans

InitSync ==
  /\ recipes = CatalogTwo
  /\ plans \in {<<>>, fetchWeekPlans(StoreTwoDays)}
  /\ selectedWeek = InitialWeek
  /\ activeDayIndices = ALL_DAYS
  /\ out = [op |-> "mount", dayId |-> -1, called |-> FALSE, ics |-> Null,
            cooked |-> Null, before |-> <<>>, held |-> <<>>,
            prev |-> [op |-> "none", dayId |-> -1, before |-> <<>>]]
  /\ nOps = 0
  /\ probe = NoProbe
  /\ remote = Remote(IF plans = <<>> THEN <<>> ELSE StoreTwoDays, CatalogTwo)
  /\ inflight = {}
  /\ console = {}

\* setPlans(nextPlans), then saveWeekPlansToSupabase(nextPlans) is under way
handleUpdatePlans(nextPlans) ==
  /\ plans' = nextPlans
  /\ inflight' = inflight \cup
       { Task(nOps + 1, "week_plans", "save", FALSE,
              Some(PlanPayload(nextPlans)), 0, {}) }

\* toggleDay with the App's handleUpdatePlans as onUpdatePlans
toggleDaySaved(idx) ==
  /\ nOps < MaxWrites
  /\ Cardinality(inflight) < MaxInflight
  /\ activeDayIndices' = ToggleNext(activeDayIndices, idx)
  /\ handleUpdatePlans(persistActiveDaysForWeek(plans, selectedWeek,
                                                ToggleNext(activeDayIndices, idx)))
  /\ out' = Out("toggleDay", idx, TRUE, Null, Null, activeDayIndices)
  /\ nOps' = nOps + 1
  /\ UNCHANGED <<remote, console, probe, recipes, selectedWeek>>

\* updateDayRecipe with the App's handleUpdatePlans as onUpdatePlans
updateDayRecipeSaved(dayId, recipeId) ==
  /\ nOps < MaxWrites
  /\ Cardinality(inflight) < MaxInflight
  /\ Includes(activeDayIndices, dayId)
  /\ handleUpdatePlans(updateDayPlan(plans, selectedWeek, activeDayIndices, dayId,
                                     RecipePatch(recipeId)))
  /\ out' = OutHeld("updateDayRecipe", dayId, TRUE, Null, Null, activeDayIndices,
                    updateDayPlanHeld(plans, selectedWeek, activeDayIndices, dayId,
                                      RecipePatch(recipeId)))
  /\ nOps' = nOps + 1
  /\ UNCHANGED <<remote, console, probe, recipes, selectedWeek, activeDayIndices>>

\* setRecipes(nextRecipes), then saveRecipesToSupabase(nextRecipes) is under way
handleUpdateRecipes(nextRecipes) ==
  /\ nOps < MaxWrites
  /\ Cardinality(inflight) < MaxInflight
  /\ nextRecipes # recipes
  /\ recipes' = nextRecipes
  /\ inflight' = inflight \cup
       { Task(nOps + 1, "recipes", "save", FALSE, Some(nextRecipes), 0, {}) }
  /\ nOps' = nOps + 1
  /\ UNCHANGED <<remote, console, probe, plans, selectedWeek, activeDayIndices, out>>

\* the upsert reaches the store; the change notification of the table is on
\* its way to the realtime channel (one stands for those of all its rows)
SaveCommit(t) ==
  /\ t.call = "save"
  /\ DistinctKeys(t.table, t.data[1])
  /\ remote' =
       [remote EXCEPT
          !.week_plans = IF t.table = "week_plans"
                         THEN Upsert(t.table, @, t.data[1]) ELSE @,
          !.recipes = IF t.table = "recipes"
                      THEN Upsert(t.table, @, t.data[1]) ELSE @,
          !.committed = @ \cup {<<t.table, t.seq>>}]
  /\ inflight' = (inflight \ {t}) \cup
                 { Task(t.seq, t.table, "notify", FALSE, Null, 0, {}) }
  /\ UNCHANGED <<console, recipes, plans, selectedWeek, activeDayIndices, out,
                 nOps, probe>>

\* the save throws (no user, no connection, refused by the store): the catch
\* block logs it and starts the reload
SaveFail(t) ==
  /\ t.call = "save"
  /\ inflight' = (inflight \ {t}) \cup
                 { Task(t.seq, t.table, "fetch", TRUE, Null, 0, {}) }
  /\ console' = console \cup {<<"SAVE FAILED", t.table, t.seq>>}
  /\ UNCHANGED <<remote, recipes, plans, selectedWeek, activeDayIndices, out,
                 nOps, probe>>

\* the realtime callback of the table runs and starts its fetch
Notified(t) ==
  /\ t.call = "notify"
  /\ inflight' = (inflight \ {t}) \cup
                 { Task(t.seq, t.table, "fetch", FALSE, Null, nOps, {}) }
  /\ UNCHANGED <<remote, console, recipes, plans, selectedWeek,
                 activeDayIndices, out, nOps, probe>>

\* the select of a fetch runs on the store
FetchServed(t) ==
  /\ t.call = "fetch"
  /\ t.data = Null
  /\ inflight' = (inflight \ {t}) \cup
                 { [t EXCEPT !.data = Some(FetchResult(t.table)),
                             !.saw = remote.committed] }
  /\ UNCHANGED <<remote, console, recipes, plans, selectedWeek,
                 activeDayIndices, out, nOps, probe>>

\* variant: the rows a fetch returns are not put into the local state
FetchDoneDropped(t) ==
  /\ t.call = "fetch"
  /\ t.data # Null
  /\ inflight' = inflight \ {t}
  /\ UNCHANGED <<remote, console, recipes, plans, selectedWeek,
                 activeDayIndices, out, nOps, probe>>

\* the fetch returns: setPlans(p) / setRecipes(r)
FetchDone(t) ==
  /\ t.call = "fetch"
  /\ t.data # Null
  /\ SetLocal(t.table, t.data[1])
  /\ inflight' = inflight \ {t}
  /\ UNCHANGED <<remote, console, selectedWeek, activeDayIndices, out, nOps,
                 probe>>

\* the line a failed fetch logs
ReloadFailed(t) ==
  <<IF t.rollback THEN "reload failed" ELSE "realtime reload failed", t.table,
    t.seq>>

\* variant: a failed fetch empties the local list, as the load after login
\* does
FetchFailClears(t) ==
  /\ t.call = "fetch"
  /\ SetLocal(t.table, <<>>)
  /\ inflight' = inflight \ {t}
  /\ console' = console \cup {ReloadFailed(t)}
  /\ UNCHANGED <<remote, selectedWeek, activeDayIndices, out, nOps, probe>>

\* the fetch throws: the catch block logs it and nothing else
FetchFail(t) ==
  /\ t.call = "fetch"
  /\ inflight' = inflight \ {t}
  /\ console' = console \cup {ReloadFailed(t)}
  /\ UNCHANGED <<remote, recipes, plans, selectedWeek, activeDayIndices, out,
                 nOps, probe>>

NextSync ==
  \/ \E idx \in SyncDays : toggleDaySaved(idx)
  \/ \E dayId \in SyncDays : \E id \in RecipeIds : updateDayRecipeSaved(dayId, Some(id))
  \/ \E nextRecipes \in Catalogs : handleUpdateRecipes(nextRecipes)
  \/ \E t \in inflight : SaveCommit(t)
  \/ \E t \in inflight : SaveFail(t)
  \/ \E t \in inflight : Notified(t)
  \/ \E t \in inflight : FetchServed(t)
  \/ \E t \in inflight : FetchDone(t)
  \/ \E t \in inflight : FetchFail(t)

SpecSync == InitSync /\ [][NextSync]_vars

----------------------------------------------------------------------------
(* Properties of the sync shell *)

\* the step on which the fetch t returns its rows
Returns(t) ==
  /\ t.call = "fetch"
  /\ t.data # Null
  /\ inflight' = inflight \ {t}
  /\ console' = console

\* the step on which the fetch t throws
Throws(t) ==
  /\ t.call = "fetch"
  /\ inflight' = inflight \ {t}
  /\ console' # console

\* the local list of a table, after the step
LocalAfter(table) == IF table = "week_plans" THEN plans' ELSE recipes'

\* C15: handleUpdatePlans and handleUpdateRecipes put the new value into the
\* local state while the save is still under way; when the save has failed
\* and the reload returns, the local state becomes the rows the reload read
\* from the store, which are the contents of the store if no save has
\* reached it since.
C15_OptimisticUpdateRollsBack ==
  [][ /\ nOps' # nOps =>
           \E t \in inflight' \ inflight :
             /\ t.call = "save"
             /\ t.seq = nOps'
             /\ t.data = Some(IF t.table = "week_plans" THEN PlanPayload(plans')
                              ELSE recipes')
      /\ \A t \in inflight :
           (t.rollback /\ Returns(t)) =>
             /\ LocalAfter(t.table) = t.data[1]
             /\ remote.committed = t.saw => LocalAfter(t.table) = FetchResult(t.table)
    ]_vars

\* the only write was to the plan list, its save failed, the reload has
\* returned and the list is again what the store holds
C15_Witness ==
  /\ nOps = 1
  /\ out.called
  /\ inflight = {}
  /\ console = {<<"SAVE FAILED", "week_plans", 1>>}
  /\ remote.committed = {}
  /\ plans = fetchWeekPlans(remote.week_plans)

\* C16: when the save has failed and the reload fails too, the local state
\* stays what it was (the optimistic value), the failure is logged and
\* nothing else is reported.
C16_FailedReloadKeepsLocalState ==
  [][ \A t \in inflight :
        (t.rollback /\ Throws(t)) =>
          /\ plans' = plans
          /\ recipes' = recipes
          /\ console' = console \cup {<<"reload failed", t.table, t.seq>>}
          /\ <<"SAVE FAILED", t.table, t.seq>> \in console
    ]_vars

\* the only write was to the plan list, its save and the reload have both
\* failed, and the list still differs from what the store holds
C16_Witness ==
  /\ nOps = 1
  /\ out.called
  /\ inflight = {}
  /\ console = {<<"SAVE FAILED", "week_plans", 1>>, <<"reload failed", "week_plans", 1>>}
  /\ plans # fetchWeekPlans(remote.week_plans)

\* C17: the reload started by a change notification never puts into the
\* plan list rows read before the save of a local write made before the
\* notification was delivered had reached the store (that save being under
\* way or done when the reload returns).
C17_NotificationKeepsLocalWrite ==
  [][ \A t \in inflight :
        (~t.rollback /\ t.table = "week_plans" /\ Returns(t)) =>
          ~ \E s \in 1..t.after :
              /\ <<"week_plans", s>> \notin t.saw
              /\ \/ <<"week_plans", s>> \in remote.committed
                 \/ \E u \in inflight :
                      u.call = "save" /\ u.table = "week_plans" /\ u.seq = s
    ]_vars

----------------------------------------------------------------------------
(* The top slice of pickSmartRecipe on catalogs of up to MaxCatalog recipes *)

MaxCatalog == 6

\* never cooked, cooked five days ago, cooked forty days ago
PickDates ==
  { Null, Some(CivilFromDays(Today - 5)), Some(CivilFromDays(Today - 40)) }

\* recipes 1..n, of alternating categories
PickCatalogs ==
  UNION { { [i \in 1..n |->
               Recipe(i, IF i % 2 = 1 THEN "Kott" ELSE "Fisk", lc[i])]
            : lc \in [1..n -> PickDates] }
          : n \in 1..MaxCatalog }

\* one call of pickSmartRecipe: the sorted candidates and the recipes the
\* random index can select
PickProbe ==
  /\ probe = NoProbe
  /\ \E rs \in PickCatalogs, excludeIds \in {{}, {1}},
        excludeCategories \in {{}, {"Kott"}} :
       probe' = [kind |-> "pick", recipes |-> rs,
                 excludeIds |-> excludeIds,
                 excludeCategories |-> excludeCategories,
                 sorted |-> SortByScore(Candidates(rs, excludeIds, excludeCategories)),
                 picks |-> pickSmartRecipe(rs, excludeIds, excludeCategories)]
  /\ UNCHANGED <<syncVars, recipes, plans, selectedWeek, activeDayIndices, out, nOps>>

SpecPick == InitScore /\ [][PickProbe]_vars

\* ceil(0.2 * n), at least 1
CeilFifth(n) == Max(1, (n + 4) \div 5)

\* C21: for a catalog of n >= 1 recipes the recipes pickSmartRecipe can
\* return are exactly the ceil(0.2 * n) highest-scoring candidates (at
\* least one): it returns none but these, and each of these can be returned.
C21_TopCeilFifth ==
  probe.kind = "pick" =>
    probe.picks =
      { probe.sorted[i].recipe : i \in 1..CeilFifth(Len(probe.recipes)) }

----------------------------------------------------------------------------
(* The used sets of randomizeAll *)

\* the recipe ids held by the days of a plan that are not active
IdsOutsideActive(plan, active) ==
  { plan.days[i].recipeId[1] :
      i \in { j \in 1..Len(plan.days) :
                /\ ~Includes(active, plan.days[j].dayId)
                /\ plan.days[j].recipeId # Null } }

\* C22: when randomizeAll picks, the used ids before the first pick are
\* exactly the recipe ids of the days outside the active set, and the used
\* categories are exactly the categories of those recipes; the recipes of
\* the active days are not counted.
C22_UsedSetsFromInactiveDays ==
  [][ ( /\ Stepped
        /\ out'.op = "randomizeAll"
        /\ out'.called )
      => LET used == buildWeekExcludes(recipes, currentPlan, Null)
             ids == IdsOutsideActive(currentPlan, activeDayIndices)
         IN /\ used.usedIds = ids
            /\ used.usedCategories =
                 { FindRecipe(recipes, id)[1].category :
                     id \in { x \in ids : FindRecipe(recipes, x) # Null } }
    ]_vars

----------------------------------------------------------------------------
(* The frame of randomizeAll *)

\* the entries of a list of days for one dayId
EntriesOf(days, dayId) == SelectSeq(days, LAMBDA d : d.dayId = dayId)

\* C23: after randomizeAll with a non-empty catalog, every day of the
\* selected week outside the active set has the entries it had before, every
\* active day has exactly one entry, with a recipe id of the catalog and no
\* free text, the days are sorted by dayId, and the WeekPlans of all other
\* weeks are unchanged.
C23_RandomizeAllFrame ==
  [][ ( /\ Stepped
        /\ out'.op = "randomizeAll"
        /\ Len(recipes) > 0 )
      => LET before == currentPlan.days
             after == PlanOf(plans', selectedWeek).days
         IN /\ \A d \in 0..6 :
                 IF Includes(activeDayIndices, d)
                 THEN /\ Len(EntriesOf(after, d)) = 1
                      /\ EntriesOf(after, d)[1].recipeId # Null
                      /\ EntriesOf(after, d)[1].recipeId[1] \in RecipeIds
                      /\ EntriesOf(after, d)[1].freeText = Null
                 ELSE EntriesOf(after, d) = EntriesOf(before, d)
            /\ \A i, j \in 1..Len(after) : i < j => after[i].dayId <= after[j].dayId
            /\ OtherPlans(plans', selectedWeek) = OtherPlans(plans, selectedWeek)
    ]_vars

\* randomizeAll has run on a week with a filled day outside the active set,
\* an active day that held free text, and another week in the list
C23_Witness ==
  /\ out.op = "randomizeAll"
  /\ out.called
  /\ out.before = activeDayIndices
  /\ Len(activeDayIndices) < 7
  /\ \E i \in 1..Len(currentPlan.days) :
       /\ ~Includes(activeDayIndices, currentPlan.days[i].dayId)
       /\ currentPlan.days[i].recipeId # Null
  /\ \E i \in 1..Len(out.held) :
       /\ out.held[i].weekIdentifier = selectedWeek
       /\ \E j \in 1..Len(out.held[i].days) :
            /\ Includes(activeDayIndices, out.held[i].days[j].dayId)
            /\ out.held[i].days[j].freeText # Null
  /\ Len(OtherPlans(plans, selectedWeek)) > 0

----------------------------------------------------------------------------
(* randomizeDay on a catalog with a cooking date after today
   (handleSaveCookedAll stamps the date of a planned day, which can lie in a
   coming week) *)

CatalogFuture ==
  << Recipe(1, "Kott", Null),
     Recipe(2, "Kott", Some(CivilFromDays(Today + 25))) >>

InitFuture ==
  /\ recipes = CatalogFuture
  /\ plans = <<>>
  /\ selectedWeek = InitialWeek
  /\ activeDayIndices = ALL_DAYS
  /\ out = [op |-> "mount", dayId |-> -1, called |-> FALSE, ics |-> Null,
            cooked |-> Null, before |-> <<>>, held |-> <<>>,
            prev |-> [op |-> "none", dayId |-> -1, before |-> <<>>]]
  /\ nOps = 0
  /\ probe = NoProbe
  /\ remote = Remote(<<>>, CatalogFuture)
  /\ inflight = {}
  /\ console = {}

SpecFuture == InitFuture /\ [][Next]_vars

\* the recipe ids on the days of a list
RecipeIdsOn(days) ==
  { days[i].recipeId[1] : i \in { j \in 1..Len(days) : days[j].recipeId # Null } }

\* C24: randomizeDay(dayId) re-uses a recipe only when there is no
\* alternative: if some recipe of the catalog is on no other day of the week,
\* the recipe written into dayId is on no other day of the week, whatever the
\* lastCooked values are.
C24_RandomizeDayAvoidsReuse ==
  [][ ( /\ Stepped
        /\ out'.op = "randomizeDay"
        /\ out'.called )
      => LET others == RecipeIdsOn(DaysExcept(currentPlan.days, out'.dayId))
             written == EntriesOf(PlanOf(plans', selectedWeek).days, out'.dayId)
         IN (RecipeIds \ others # {}) => written[1].recipeId[1] \notin others
    ]_vars

----------------------------------------------------------------------------
(* The active days a load returns for a stored column *)

\* the stored active_day_indices columns have at most MaxStoredLen entries
MaxStoredLen == 3
StoredEntries == {-1, 0, 3, 6, 7}
StoredColumns == UNION { [1..n -> StoredEntries] : n \in 0..MaxStoredLen }

\* fetchWeekPlansFromSupabase on a table with one row
ActiveProbe ==
  /\ probe = NoProbe
  /\ \E stored \in StoredColumns :
       probe' = [kind |-> "active", stored |-> stored,
                 loaded |-> fetchWeekPlans(<<DbRow(Week02, <<>>, stored)>>)[1].activeDayIndices]
  /\ UNCHANGED <<syncVars, recipes, plans, selectedWeek, activeDayIndices, out, nOps>>

SpecActive == InitScore /\ [][ActiveProbe]_vars

\* a sorted list of integers in 0..6 without duplicates
IsDaySet(a) ==
  /\ \A i \in 1..Len(a) : a[i] \in 0..6
  /\ \A i, j \in 1..Len(a) : i < j => a[i] < a[j]

\* C25: every activeDayIndices a load returns is a sorted list of integers
\* in 0..6 without duplicates, and a stored value that is absent (empty) or
\* invalid (holding no day index of 0..6 at all) loads as all seven days.
C25_LoadedActiveDays ==
  probe.kind = "active"
    => /\ IsDaySet(probe.loaded)
       /\ (\A i \in 1..Len(probe.stored) : probe.stored[i] \notin 0..6)
            => probe.loaded = ALL_DAYS

----------------------------------------------------------------------------
(* Shape of the plan list *)

\* C26: in every state reached from an empty plan list by the handlers of
\* the planner, over any weeks, the days of each WeekPlan hold at most one
\* DayPlan per dayId, and every dayId is in 0..6.
C26_OneDayPlanPerDayId ==
  \A w \in 1..Len(plans) :
    /\ \A i \in 1..Len(plans[w].days) : plans[w].days[i].dayId \in 0..6
    /\ \A i, j \in 1..Len(plans[w].days) :
         plans[w].days[i].dayId = plans[w].days[j].dayId => i = j

\* a day that the handler before had written is written again by
\* randomizeDay, in a week that holds two days
C26_Witness ==
  /\ out.op = "randomizeDay"
  /\ out.called
  /\ out.prev.op = "updateDayRecipe"
  /\ out.prev.dayId = out.dayId
  /\ Len(currentPlan.days) = 2

\* the WeekPlans of a list for one week
PlansOfWeek(ps, w) == SelectSeq(ps, LAMBDA p : p.weekIdentifier = w)

\* C27: the plan list holds at most one WeekPlan per weekIdentifier after
\* every step, and setDayRecipe on a week that has no WeekPlan creates exactly
\* one, holding the addressed day and the current active days.
C27_OneWeekPlanPerWeek ==
  [][ /\ \A i, j \in 1..Len(plans') :
           plans'[i].weekIdentifier = plans'[j].weekIdentifier => i = j
      /\ ( /\ Stepped
           /\ out'.op = "updateDayRecipe"
           /\ FindWeekIdx(plans, selectedWeek) = 0 )
         => /\ Len(PlansOfWeek(plans', selectedWeek)) = 1
            /\ Len(PlansOfWeek(plans', selectedWeek)[1].days) = 1
            /\ PlansOfWeek(plans', selectedWeek)[1].days[1].dayId = out'.dayId
            /\ PlansOfWeek(plans', selectedWeek)[1].activeDayIndices = activeDayIndices
            /\ OtherPlans(plans', selectedWeek) = plans
    ]_vars

\* setDayRecipe has created the WeekPlan of a second week
C27_Witness ==
  /\ out.op = "updateDayRecipe"
  /\ out.called
  /\ FindWeekIdx(out.held, selectedWeek) = 0
  /\ Len(out.held) = 1
  /\ Len(plans) = 2
  /\ currentPlan.days = <<DayPlan(out.dayId, Some(1), Null)>>

----------------------------------------------------------------------------
(* Convergence of one session *)

\* no fetch has thrown so far
NoReloadFailed ==
  \A line \in console : line[1] \notin {"reload failed", "realtime reload failed"}

\* C28: in every interleaving of handleUpdatePlans calls, save completions
\* (success or failure), rollback reloads and notification reloads, once no
\* save, notification or reload is under way the local plan list is the list
\* the rows of the store load as; a reload started by an earlier failed save
\* never leaves the local list older than a later successful save.
C28_QuiescentLocalIsRemote ==
  (inflight = {} /\ NoReloadFailed)
    => plans = fetchWeekPlans(remote.week_plans)

----------------------------------------------------------------------------
(* A second session of the same user *)

\* the list the other session holds once it has set the recipe of day 0 of
\* Week03: it was loaded from the store and is saved whole
OtherSessionPlans ==
  LET loaded == fetchWeekPlans(remote.week_plans)
  IN updateDayPlan(loaded, Week03, FromPlan(PlanOf(loaded, Week03)), 0,
                   RecipePatch(Some(2)))

\* saveWeekPlansToSupabase of the other session reaches the store (numbered
\* 0); its change notification is on its way to the channel of this session,
\* which listens for the rows of the user
OtherSessionSave ==
  /\ <<"week_plans", 0>> \notin remote.committed
  /\ selectedWeek # Week03
  /\ Cardinality(inflight) < MaxInflight
  /\ remote' =
       [remote EXCEPT
          !.week_plans = Upsert("week_plans", @, PlanPayload(OtherSessionPlans)),
          !.committed = @ \cup {<<"week_plans", 0>>}]
  /\ inflight' = inflight \cup
                 { Task(0, "week_plans", "notify", FALSE, Null, 0, {}) }
  /\ UNCHANGED <<console, recipes, plans, selectedWeek, activeDayIndices, out,
                 nOps, probe>>

NextTwoSessions == NextSync \/ OtherSessionSave

SpecTwoSessions == InitSync /\ [][NextTwoSessions]_vars

\* the rows of the weeks other than w
OtherRows(rows, w) == SelectSeq(rows, LAMBDA r : r.week_identifier # w)

\* C29: when a save of this session, made for a mutation of the selected
\* week, reaches the store, the row of every other week stays as it was (it
\* loads as the same WeekPlan before and after): a change the other session
\* saved to another week is not overwritten.
C29_SaveLeavesOtherWeeks ==
  [][ (\E t \in inflight :
         /\ t.call = "save"
         /\ t.table = "week_plans"
         /\ <<"week_plans", t.seq>> \in remote'.committed \ remote.committed)
      => fetchWeekPlans(OtherRows(remote'.week_plans, selectedWeek))
           = fetchWeekPlans(OtherRows(remote.week_plans, selectedWeek))
    ]_vars

----------------------------------------------------------------------------
(* recipeContentService: saveRecipeFull, one call followed step by step.
   The call lives in probe: the rows of the recipe in the three tables, the
   normalized input, and the statement the call is at. *)

\* the lists of ingredients and of steps of an input have at most MaxRows rows
MaxRows == 2

normalizeText(value) == Trim(value)

\* the texts typed into a name or step field
ContentTexts == { <<" ">>, <<"a">>, <<"b", " ">> }
ContentLists == UNION { [1..n -> ContentTexts] : n \in 0..MaxRows }

\* normalizedIngredients; the inputs have no amount and no unit, so a row is
\* empty when its name is
NormalizedIngredients(ingredients) ==
  LET names == SelectSeq([i \in 1..Len(ingredients) |-> normalizeText(ingredients[i])],
                         LAMBDA n : Len(n) > 0)
  IN [i \in 1..Len(names) |-> [name |-> names[i], sort_order |-> i - 1]]

NormalizedSteps(steps) ==
  LET texts == SelectSeq([i \in 1..Len(steps) |-> normalizeText(steps[i])],
                         LAMBDA t : Len(t) > 0)
  IN [i \in 1..Len(texts) |-> [text |-> texts[i], step_order |-> i]]

\* raised when the recipe name is empty after trimming (the category is
\* tested the same way)
normalizeRecipeFullInput(input) ==
  [raised |-> Len(normalizeText(input.name)) = 0,
   name |-> normalizeText(input.name),
   ingredients |-> NormalizedIngredients(input.ingredients),
   steps |-> NormalizedSteps(input.steps)]

SaveRecipeFullInputs ==
  [name : {<<"n">>, <<" ">>}, ingredients : ContentLists, steps : ContentLists]

\* what the tables hold for the recipe before the call
StoredContents ==
  [recipe : {Null, Some(<<"o">>)},
   ingredients : {<<>>, NormalizedIngredients(<< <<"a">> >>)},
   steps : {<<>>, NormalizedSteps(<< <<"a">>, <<"b">> >>)}]

ContentCall(pc, input, stored, before) ==
  [kind |-> "saveRecipeFull", pc |-> pc, input |-> input, stored |-> stored,
   before |-> before]

ContentUnchanged ==
  UNCHANGED <<syncVars, recipes, plans, selectedWeek, activeDayIndices, out, nOps>>

\* the call is made: getCurrentUserId and normalizeRecipeFullInput run
saveRecipeFull(signedIn) ==
  /\ probe = NoProbe
  /\ \E input \in SaveRecipeFullInputs, stored \in StoredContents :
       LET normalized == normalizeRecipeFullInput(input)
       IN probe' = ContentCall(IF ~signedIn \/ normalized.raised THEN "thrown"
                               ELSE "upsert recipe",
                               normalized, stored, stored)
  /\ ContentUnchanged

AtStatement(pc) == probe.kind = "saveRecipeFull" /\ probe.pc = pc

\* supabase.from("recipes").upsert(recipePayload, { onConflict: "id" })
UpsertRecipe(ok) ==
  /\ AtStatement("upsert recipe")
  /\ probe' = IF ok
              THEN [probe EXCEPT !.stored.recipe = Some(probe.input.name),
                                 !.pc = "delete ingredients"]
              ELSE [probe EXCEPT !.pc = "thrown"]
  /\ ContentUnchanged

\* supabase.from("recipe_ingredients").delete().eq("recipe_id", ...)
DeleteIngredients(ok) ==
  /\ AtStatement("delete ingredients")
  /\ probe' = IF ok
              THEN [probe EXCEPT !.stored.ingredients = <<>>,
                                 !.pc = "delete steps"]
              ELSE [probe EXCEPT !.pc = "thrown"]
  /\ ContentUnchanged

\* supabase.from("recipe_steps").delete().eq("recipe_id", ...)
DeleteSteps(ok) ==
  /\ AtStatement("delete steps")
  /\ probe' = IF ok
              THEN [probe EXCEPT !.stored.steps = <<>>,
                                 !.pc = "insert ingredients"]
              ELSE [probe EXCEPT !.pc = "thrown"]
  /\ ContentUnchanged

\* the insert into recipe_ingredients, not made for an empty list
InsertIngredients(ok) ==
  /\ AtStatement("insert ingredients")
  /\ probe' = IF Len(probe.input.ingredients) = 0
              THEN [probe EXCEPT !.pc = "insert steps"]
              ELSE IF ok
              THEN [probe EXCEPT !.stored.ingredients = probe.input.ingredients,
                                 !.pc = "insert steps"]
              ELSE [probe EXCEPT !.pc = "thrown"]
  /\ ContentUnchanged

\* the insert into recipe_steps, not made for an empty list
InsertSteps(ok) ==
  /\ AtStatement("insert steps")
  /\ probe' = IF Len(probe.input.steps) = 0
              THEN [probe EXCEPT !.pc = "returned"]
              ELSE IF ok
              THEN [probe EXCEPT !.stored.steps = probe.input.steps,
                                 !.pc = "returned"]
              ELSE [probe EXCEPT !.pc = "thrown"]
  /\ ContentUnchanged

NextContent ==
  \/ \E signedIn \in BOOLEAN : saveRecipeFull(signedIn)
  \/ \E ok \in BOOLEAN : UpsertRecipe(ok)
  \/ \E ok \in BOOLEAN : DeleteIngredients(ok)
  \/ \E ok \in BOOLEAN : DeleteSteps(ok)
  \/ \E ok \in BOOLEAN : InsertIngredients(ok)
  \/ \E ok \in BOOLEAN : InsertSteps(ok)

SpecContent == InitScore /\ [][NextContent]_vars

\* C30: saveRecipeFull is all-or-nothing for the content of a recipe: when
\* one of its steps has failed and the call has thrown, the ingredients and
\* the steps stored for the recipe are those stored before the call.
C30_SaveRecipeFullAllOrNothing ==
  AtStatement("thrown")
    => /\ probe.stored.ingredients = probe.before.ingredients
       /\ probe.stored.steps = probe.before.steps

====
